---------------------------- MODULE Spec2Model ----------------------------
(***************************************************************************)
(* A model of the analytics core of the logistics dashboard:               *)
(*   data_loader.create_master_orders, compute_order_demand                *)
(*   eda_utils.apply_global_filters, compute_stock_cover                   *)
(*   route_planner.compute_route_scores                                    *)
(*   warehouse_optimizer.analyse_inventory, recommend_transfers,           *)
(*                       recommend_reorders                                *)
(*                                                                         *)
(* A pandas DataFrame is a record [raised, cols, rows]: cols is the set of *)
(* column names, rows the sequence of rows, each row a function from cols  *)
(* to cells.  A cell is a tuple of length 0 (NaN / NaT / None) or 1 (a     *)
(* known value).  raised is "" for a value that was returned and the name  *)
(* of the exception for a call that raised instead of returning.           *)
(***************************************************************************)
EXTENDS Integers, Sequences, FiniteSets, TLC

VARIABLES
    data,            \* main(): the dict of loaded tables
    master,          \* main(): the result of create_master_orders(data)
    date_range,      \* main(): (start_ts, end_ts) of the sidebar
    selections,      \* main(): the sidebar's five multiselect values, by column
    filtered_master, \* main(): the result of apply_global_filters
    weights,         \* main(): the RouteWeights handed to compute_route_scores
    scored_routes,   \* main(): the result of compute_route_scores
    inventory,       \* main(): the warehouse inventory table
    orders_df,       \* main(): the order rows handed to analyse_inventory
    enriched_inventory, \* main(): the result of analyse_inventory
    transfer_plan,   \* main(): the result of recommend_transfers
    reorder_plan,    \* main(): the result of recommend_reorders
    kpis,            \* main(): the result of calculate_overall_kpis
    normalized,      \* _normalize_series: the series of a call and its result
    extremes         \* main(): the result of best_and_worst_routes

warehouse_vars == <<inventory, orders_df, enriched_inventory, transfer_plan, reorder_plan>>

vars == <<data, master, date_range, selections, filtered_master, weights,
          scored_routes, warehouse_vars, kpis, extremes, normalized>>

---------------------------------------------------------------------------
(* Cells and frames                                                        *)

NULL == <<>>

Known(x) == x # NULL

Val(x) == x[1]

Frame(cols, rows) == [raised |-> "", cols |-> cols, rows |-> rows]

\* pd.DataFrame(): no columns, no rows
EmptyFrame == Frame({}, <<>>)

Raised(name) == [raised |-> name, cols |-> {}, rows |-> <<>>]

NotComputed == Raised("not computed")

\* DataFrame.empty: any axis of length 0
IsEmpty(df) == df.cols = {} \/ df.rows = <<>>

\* df[c] = series: adds or overwrites column c, one cell per row
WithColumn(df, c, series) ==
    [df EXCEPT !.cols = @ \cup {c},
               !.rows = [i \in DOMAIN @ |-> (c :> series[i]) @@ @[i]]]

\* frame[mask]: the rows whose mask entry is True, in their order
RECURSIVE MaskRows(_, _)
MaskRows(rows, mask) ==
    IF rows = <<>> THEN <<>>
    ELSE (IF Head(mask) THEN <<Head(rows)>> ELSE <<>>) \o MaskRows(Tail(rows), Tail(mask))

Keep(frame, mask) == [frame EXCEPT !.rows = MaskRows(@, mask)]

\* Series.fillna(v)
FillNa(x, v) == IF Known(x) THEN x ELSE <<v>>

\* Series.replace(a, NaN)
ReplaceWithNaN(x, a) == IF Known(x) /\ Val(x) = a THEN NULL ELSE x

\* Series + Series: NaN propagates
Add(x, y) == IF Known(x) /\ Known(y) THEN <<Val(x) + Val(y)>> ELSE NULL

\* master.get(c, 0): the column when present, the scalar 0 otherwise
GetOrZero(df, row, c) == IF c \in df.cols THEN row[c] ELSE <<0>>

SeqsUpTo(S, n) == UNION {[1..k -> S] : k \in 0..n}

RECURSIVE SumSeq(_)
SumSeq(s) == IF s = <<>> THEN 0 ELSE Head(s) + SumSeq(Tail(s))

---------------------------------------------------------------------------
(* DataFrame.merge(right, on=key, how="left").  The non-key columns of the *)
(* two frames are disjoint in every table of this model, so no suffix is   *)
(* ever applied.  A key that is not a column of either frame is a KeyError.*)

RECURSIVE LeftJoinRows(_, _, _, _)
LeftJoinRows(lrows, right, key, newcols) ==
    IF lrows = <<>> THEN <<>>
    ELSE LET l       == Head(lrows)
             matches == SelectSeq(right.rows, LAMBDA r : r[key] = l[key])
             joined(r) == [c \in newcols |-> r[c]] @@ l
             unmatched == [c \in newcols |-> NULL] @@ l
         IN  (IF matches = <<>> THEN <<unmatched>>
              ELSE [j \in 1..Len(matches) |-> joined(matches[j])])
             \o LeftJoinRows(Tail(lrows), right, key, newcols)

Merge(left, right, key) ==
    IF key \notin left.cols \/ key \notin right.cols THEN Raised("KeyError")
    ELSE Frame(left.cols \cup right.cols,
               LeftJoinRows(left.rows, right, key, right.cols \ left.cols))

---------------------------------------------------------------------------
(* data_loader.create_master_orders                                        *)

cost_cols ==
    {"Delivery_Cost_INR", "Fuel_Cost_INR", "Labor_Cost_INR",
     "Maintenance_Cost_INR", "Insurance_Cost_INR", "Packaging_Cost_INR",
     "Technology_Fee_INR", "Other_Overhead_INR", "Toll_Cost_INR"}

\* for col in cost_cols: if col in master.columns: master[col].fillna(0)
FillCosts(df) ==
    [df EXCEPT !.rows = [i \in DOMAIN @ |->
        [c \in df.cols |-> IF c \in cost_cols THEN FillNa(@[i][c], 0)
                           ELSE @[i][c]]]]

TotalVariableCost(df, row) ==
    Add(Add(Add(Add(GetOrZero(df, row, "Fuel_Cost_INR"),
                    GetOrZero(df, row, "Labor_Cost_INR")),
                GetOrZero(df, row, "Maintenance_Cost_INR")),
            GetOrZero(df, row, "Toll_Cost_INR")),
        GetOrZero(df, row, "Other_Overhead_INR"))

OtherCostsMutant(df, row) ==
    Add(Add(Add(Add(GetOrZero(df, row, "Fuel_Cost_INR"),
                    GetOrZero(df, row, "Labor_Cost_INR")),
                GetOrZero(df, row, "Maintenance_Cost_INR")),
            GetOrZero(df, row, "Toll_Cost_INR")),
        GetOrZero(df, row, "Other_Overhead_INR"))

\* the parenthesised sum of lines 146-153
OtherCosts(df, row) ==
    Add(Add(Add(Add(Add(Add(Add(GetOrZero(df, row, "Fuel_Cost_INR"),
                                GetOrZero(df, row, "Labor_Cost_INR")),
                            GetOrZero(df, row, "Maintenance_Cost_INR")),
                        GetOrZero(df, row, "Insurance_Cost_INR")),
                    GetOrZero(df, row, "Packaging_Cost_INR")),
                GetOrZero(df, row, "Technology_Fee_INR")),
            GetOrZero(df, row, "Other_Overhead_INR")),
        GetOrZero(df, row, "Toll_Cost_INR"))

\* master["Delivery_Cost_INR"] is a KeyError when the column is missing
WithCostTotals(df) ==
    LET tv == WithColumn(df, "Total_Variable_Cost",
                  [i \in DOMAIN df.rows |-> TotalVariableCost(df, df.rows[i])])
    IN  IF "Delivery_Cost_INR" \notin df.cols THEN Raised("KeyError")
        ELSE WithColumn(tv, "Total_Delivery_Cost",
                 [i \in DOMAIN df.rows |->
                     Add(df.rows[i]["Delivery_Cost_INR"], OtherCosts(df, df.rows[i]))])

HoursPerDay == 24

\* (actual - promised).dt.days: timestamps are in hours, Timedelta.days floors
DelayDaysMutant(actual, promised) ==
    IF Known(actual) /\ Known(promised)
    THEN <<(Val(promised) - Val(actual)) \div HoursPerDay>>
    ELSE NULL

DelayDays(actual, promised) ==
    IF Known(actual) /\ Known(promised)
    THEN <<(Val(actual) - Val(promised)) \div HoursPerDay>>
    ELSE NULL

WithDelay(df) ==
    IF "Promised_Delivery_Date" \in df.cols /\ "Actual_Delivery_Date" \in df.cols
    THEN WithColumn(df, "Delivery_Delay_Days",
             [i \in DOMAIN df.rows |->
                 DelayDays(df.rows[i]["Actual_Delivery_Date"],
                           df.rows[i]["Promised_Delivery_Date"])])
    ELSE WithColumn(df, "Delivery_Delay_Days", [i \in DOMAIN df.rows |-> NULL])

\* lambda x: np.nan if pd.isna(x) else int(x <= 0)
OnTimeFlag(x) == IF ~Known(x) THEN NULL ELSE IF Val(x) <= 0 THEN <<1>> ELSE <<0>>

WithOnTime(df) ==
    WithColumn(df, "On_Time_Flag",
        [i \in DOMAIN df.rows |-> OnTimeFlag(df.rows[i]["Delivery_Delay_Days"])])

WithDistance(df) ==
    IF "Distance_km" \notin df.cols
    THEN WithColumn(df, "Distance_km", [i \in DOMAIN df.rows |-> NULL])
    ELSE df

\* a float quotient is kept as the pair of its operands
Ratio(n, d) == [num |-> n, den |-> d]

Divide(x, y) == IF Known(x) /\ Known(y) THEN <<Ratio(Val(x), Val(y))>> ELSE NULL

WithFuelEfficiency(df) ==
    IF "Fuel_Consumed_L" \in df.cols
    THEN LET f == WithColumn(df, "Fuel_Consumed_L",
                      [i \in DOMAIN df.rows |->
                          ReplaceWithNaN(df.rows[i]["Fuel_Consumed_L"], 0)])
         IN  WithColumn(f, "Fuel_Efficiency_km_per_L_order",
                 [i \in DOMAIN f.rows |->
                     Divide(f.rows[i]["Distance_km"], f.rows[i]["Fuel_Consumed_L"])])
    ELSE df

\* np.where(Distance_km.gt(0), Total_Delivery_Cost / Distance_km, nan)
CostPerKm(row) ==
    IF Known(row["Distance_km"]) /\ Val(row["Distance_km"]) > 0
    THEN Divide(row["Total_Delivery_Cost"], row["Distance_km"])
    ELSE NULL

WithCostPerKm(df) ==
    WithColumn(df, "Cost_per_km", [i \in DOMAIN df.rows |-> CostPerKm(df.rows[i])])

\* fleet["CO2_kg_per_km"].replace(0, nan).mean(), else 0.65
AvgCo2PerKm(fleet) ==
    LET usable == IF ~IsEmpty(fleet) /\ "CO2_kg_per_km" \in fleet.cols
                  THEN SelectSeq([i \in DOMAIN fleet.rows |->
                                     ReplaceWithNaN(fleet.rows[i]["CO2_kg_per_km"], 0)],
                                 Known)
                  ELSE <<>>
    IN  IF usable = <<>> THEN Ratio(65, 100)
        ELSE Ratio(SumSeq([i \in DOMAIN usable |-> Val(usable[i])]), Len(usable))

\* master.get("Distance_km", 0).fillna(0) * avg_co2_per_km
EstimatedCo2(row, avg) ==
    <<Ratio(Val(FillNa(row["Distance_km"], 0)) * avg.num, avg.den)>>

WithEstimatedCo2(df, fleet) ==
    WithColumn(df, "Estimated_CO2_kg",
        [i \in DOMAIN df.rows |-> EstimatedCo2(df.rows[i], AvgCo2PerKm(fleet))])

Derive(joined, fleet) ==
    LET costed == WithCostTotals(FillCosts(joined))
    IN  IF costed.raised # "" THEN costed
        ELSE WithEstimatedCo2(
                 WithCostPerKm(WithFuelEfficiency(WithDistance(
                     WithOnTime(WithDelay(costed))))), fleet)

create_master_orders(d) ==
    IF IsEmpty(d["orders"]) THEN EmptyFrame
    ELSE LET m1 == Merge(d["orders"], d["delivery_performance"], "Order_ID")
             m2 == IF m1.raised # "" THEN m1
                   ELSE Merge(m1, d["routes_distance"], "Order_ID")
             m3 == IF m2.raised # "" THEN m2
                   ELSE Merge(m2, d["cost_breakdown"], "Order_ID")
         IN  IF m3.raised # "" THEN m3 ELSE Derive(m3, d["vehicle_fleet"])

---------------------------------------------------------------------------
(* Loaded tables for create_master_orders.  Order_ID is already a string   *)
(* in every loaded table (_apply_standardisation), so the astype(str) of   *)
(* create_master_orders leaves it as it is.                                *)

MaxRows == 2

OrderIds == {"O1", "O2"}

Secondary ==
    {"delivery_performance", "routes_distance", "cost_breakdown", "vehicle_fleet"}

TablesOver(cols, rowset) == {Frame(cols, s) : s \in SeqsUpTo(rowset, MaxRows)}

\* orders.csv: Order_ID is unique; the file may be missing or hold no row
OrdersTables ==
    {EmptyFrame} \cup
    {Frame({"Order_ID"}, [i \in DOMAIN s |-> [Order_ID |-> <<s[i]>>]]) :
        s \in {t \in SeqsUpTo(OrderIds, Cardinality(OrderIds)) :
                  \A i, j \in DOMAIN t : t[i] = t[j] => i = j}}

\* (promised, actual) in hours, and the base delivery cost
DeliveryPatterns ==
    {<<NULL, <<24>>, <<256>>>>, <<<<24>>, NULL, <<256>>>>, <<<<24>>, <<0>>, <<256>>>>,
     <<<<24>>, <<24>>, NULL>>, <<<<24>>, <<36>>, <<256>>>>, <<<<24>>, <<48>>, <<256>>>>}

DeliveryCols ==
    {"Order_ID", "Promised_Delivery_Date", "Actual_Delivery_Date", "Delivery_Cost_INR"}

DeliveryRow(o, x) ==
    [Order_ID |-> <<o>>, Promised_Delivery_Date |-> x[1],
     Actual_Delivery_Date |-> x[2], Delivery_Cost_INR |-> x[3]]

DeliveryTables ==
    {EmptyFrame}
    \cup TablesOver(DeliveryCols,
            {DeliveryRow(o, x) : o \in OrderIds, x \in DeliveryPatterns})
    \cup TablesOver({"Order_ID", "Delivery_Cost_INR"},
            {[Order_ID |-> <<o>>, Delivery_Cost_INR |-> c] :
                o \in OrderIds, c \in {NULL, <<256>>}})

\* (distance, fuel consumed, toll)
RoutePatterns ==
    {<<<<4>>, <<2>>, <<128>>>>, <<<<0>>, <<0>>, NULL>>, <<NULL, <<2>>, <<128>>>>,
     <<<<4>>, <<0>>, <<128>>>>, <<<<-4>>, NULL, <<128>>>>}

RoutesCols == {"Order_ID", "Distance_km", "Fuel_Consumed_L", "Toll_Cost_INR"}

RoutesRow(o, x) ==
    [Order_ID |-> <<o>>, Distance_km |-> x[1], Fuel_Consumed_L |-> x[2],
     Toll_Cost_INR |-> x[3]]

RoutesTables ==
    {EmptyFrame}
    \cup TablesOver(RoutesCols, {RoutesRow(o, x) : o \in OrderIds, x \in RoutePatterns})
    \cup TablesOver({"Order_ID", "Toll_Cost_INR"},
            {[Order_ID |-> <<o>>, Toll_Cost_INR |-> <<128>>] : o \in OrderIds})

\* (fuel, labor, maintenance, insurance, packaging, technology fee, overhead)
CostPatterns ==
    {<<<<1>>, <<2>>, <<4>>, <<8>>, <<16>>, <<32>>, <<64>>>>,
     <<NULL, NULL, NULL, NULL, NULL, NULL, NULL>>,
     <<NULL, <<2>>, NULL, <<8>>, NULL, <<32>>, NULL>>,
     <<<<1>>, NULL, <<4>>, NULL, <<16>>, NULL, <<64>>>>}

CostsCols ==
    {"Order_ID", "Fuel_Cost_INR", "Labor_Cost_INR", "Maintenance_Cost_INR",
     "Insurance_Cost_INR", "Packaging_Cost_INR", "Technology_Fee_INR",
     "Other_Overhead_INR"}

CostsRow(o, x) ==
    [Order_ID |-> <<o>>, Fuel_Cost_INR |-> x[1], Labor_Cost_INR |-> x[2],
     Maintenance_Cost_INR |-> x[3], Insurance_Cost_INR |-> x[4],
     Packaging_Cost_INR |-> x[5], Technology_Fee_INR |-> x[6],
     Other_Overhead_INR |-> x[7]]

CostsTables ==
    {EmptyFrame}
    \cup TablesOver(CostsCols, {CostsRow(o, x) : o \in OrderIds, x \in CostPatterns})
    \cup TablesOver({"Order_ID", "Fuel_Cost_INR", "Labor_Cost_INR"},
            {[Order_ID |-> <<o>>, Fuel_Cost_INR |-> x[1], Labor_Cost_INR |-> x[2]] :
                o \in OrderIds, x \in {<<<<1>>, <<2>>>>, <<NULL, <<2>>>>}})

FleetCols == {"Vehicle_ID", "CO2_kg_per_km"}

FleetRow(c) == [Vehicle_ID |-> <<"V">>, CO2_kg_per_km |-> c]

FleetTables ==
    {EmptyFrame}
    \cup TablesOver(FleetCols, {FleetRow(c) : c \in {NULL, <<0>>, <<2>>, <<3>>}})
    \cup TablesOver({"Vehicle_ID"}, {[Vehicle_ID |-> <<"V">>]})

\* every table a secondary source may be
Rich(t) ==
    CASE t = "delivery_performance" -> DeliveryTables
      [] t = "routes_distance"      -> RoutesTables
      [] t = "cost_breakdown"       -> CostsTables
      [] t = "vehicle_fleet"        -> FleetTables

\* the other sources while one is varied: the full header with no row, or one
\* complete row for order O1
Background(t) ==
    CASE t = "delivery_performance" ->
            {Frame(DeliveryCols, <<>>),
             Frame(DeliveryCols, <<DeliveryRow("O1", <<<<24>>, <<48>>, <<256>>>>)>>)}
      [] t = "routes_distance" ->
            {Frame(RoutesCols, <<>>),
             Frame(RoutesCols, <<RoutesRow("O1", <<<<4>>, <<2>>, <<128>>>>)>>)}
      [] t = "cost_breakdown" ->
            {Frame(CostsCols, <<>>),
             Frame(CostsCols,
                   <<CostsRow("O1", <<<<1>>, <<2>>, <<4>>, <<8>>, <<16>>, <<32>>, <<64>>>>)>>)}
      [] t = "vehicle_fleet" ->
            {Frame(FleetCols, <<>>), Frame(FleetCols, <<FleetRow(<<2>>)>>)}

Backgrounds ==
    {[t \in Secondary |->
         CASE t = "delivery_performance" -> d
           [] t = "routes_distance"      -> r
           [] t = "cost_breakdown"       -> c
           [] t = "vehicle_fleet"        -> f] :
        d \in Background("delivery_performance"), r \in Background("routes_distance"),
        c \in Background("cost_breakdown"), f \in Background("vehicle_fleet")}

\* one secondary source ranges over all its tables, the others over their
\* background tables
Unused == <<>>

\* the warehouse tab's tables play no part
WarehouseUnused ==
    /\ inventory = Unused
    /\ orders_df = Unused
    /\ enriched_inventory = Unused
    /\ transfer_plan = Unused
    /\ reorder_plan = Unused

InitJoin ==
    /\ date_range = Unused
    /\ selections = Unused
    /\ filtered_master = Unused
    /\ weights = Unused
    /\ scored_routes = Unused
    /\ WarehouseUnused
    /\ kpis = Unused
    /\ extremes = Unused
    /\ normalized = Unused
    /\ \E focus \in Secondary : \E o \in OrdersTables, f \in Rich(focus), bg \in Backgrounds :
          data = [t \in {"orders"} \cup Secondary |->
                     IF t = "orders" THEN o ELSE IF t = focus THEN f ELSE bg[t]]
    /\ master = NotComputed

\* main(): master = create_master_orders(data)
CreateMaster ==
    /\ master = NotComputed
    /\ master' = create_master_orders(data)
    /\ UNCHANGED <<data, date_range, selections, filtered_master, weights,
                   scored_routes, warehouse_vars, kpis, extremes, normalized>>

NextJoin == CreateMaster

SpecJoin == InitJoin /\ [][NextJoin]_vars

---------------------------------------------------------------------------
(* Claims about create_master_orders (SpecJoin)                            *)

Computed(df) == df # NotComputed

Returned(df) == Computed(df) /\ df.raised = ""

IdsOf(df) == [i \in DOMAIN df.rows |-> df.rows[i]["Order_ID"]]

\* C1: the master table holds exactly one row per row of the orders table, in
\* the orders' order, however many rows the secondary tables hold per order id
C1_JoinCompleteness ==
    Returned(master) => IdsOf(master) = IdsOf(data["orders"])

\* the value a cost column contributes to a row: 0 when the column is absent
\* or the cell is null
CostOrZero(df, row, c) == IF c \in df.cols /\ Known(row[c]) THEN Val(row[c]) ELSE 0

RECURSIVE SumOver(_, _, _)
SumOver(S, df, row) ==
    IF S = {} THEN 0
    ELSE LET c == CHOOSE x \in S : TRUE
         IN  CostOrZero(df, row, c) + SumOver(S \ {c}, df, row)

\* C3: in every master row Total_Delivery_Cost is the base delivery cost plus
\* the sum of the eight other cost components, a null component counting as 0
C3_CostTotal ==
    Returned(master) =>
        \A i \in DOMAIN master.rows :
            master.rows[i]["Total_Delivery_Cost"] =
                <<SumOver(cost_cols, master, master.rows[i])>>

HasRowFor(table, id) == \E j \in DOMAIN table.rows : table.rows[j]["Order_ID"] = id

\* an order without any cost_breakdown row whose total is base cost plus toll
C3_Witness ==
    /\ Returned(master)
    /\ \E i \in DOMAIN master.rows :
          /\ ~HasRowFor(data["cost_breakdown"], master.rows[i]["Order_ID"])
          /\ master.rows[i]["Total_Delivery_Cost"] = <<256 + 128>>

BothDatesKnown(df, row) ==
    /\ "Promised_Delivery_Date" \in df.cols
    /\ "Actual_Delivery_Date" \in df.cols
    /\ Known(row["Promised_Delivery_Date"])
    /\ Known(row["Actual_Delivery_Date"])

\* C4: with both dates known, the delay is actual minus promised in whole days
\* and On_Time_Flag is 1 exactly when the delay is <= 0, else 0; with a date
\* unknown both the delay and the flag are unknown
C4_OnTimeFlag ==
    Returned(master) =>
        \A i \in DOMAIN master.rows :
            LET row == master.rows[i]
            IN  IF BothDatesKnown(master, row)
                THEN /\ Known(row["Delivery_Delay_Days"])
                     /\ Val(row["Delivery_Delay_Days"]) * HoursPerDay <=
                            Val(row["Actual_Delivery_Date"]) - Val(row["Promised_Delivery_Date"])
                     /\ Val(row["Actual_Delivery_Date"]) - Val(row["Promised_Delivery_Date"]) <
                            (Val(row["Delivery_Delay_Days"]) + 1) * HoursPerDay
                     /\ row["On_Time_Flag"] =
                            (IF Val(row["Delivery_Delay_Days"]) <= 0 THEN <<1>> ELSE <<0>>)
                ELSE /\ row["Delivery_Delay_Days"] = NULL
                     /\ row["On_Time_Flag"] = NULL

\* a late order flagged 0 and an order with an unknown date in one master
C4_Witness ==
    /\ Returned(master)
    /\ \E i, j \in DOMAIN master.rows :
          /\ BothDatesKnown(master, master.rows[i])
          /\ master.rows[i]["Delivery_Delay_Days"] = <<1>>
          /\ master.rows[i]["On_Time_Flag"] = <<0>>
          /\ ~BothDatesKnown(master, master.rows[j])
          /\ master.rows[j]["On_Time_Flag"] = NULL

SomeSourceMissing ==
    \E t \in {"delivery_performance", "routes_distance", "cost_breakdown"} :
        IsEmpty(data[t])

\* C6: create_master_orders returns (an empty master or a master table) and
\* never raises when a source table is absent or empty
C6_MissingSourceDegrades ==
    (Computed(master) /\ (IsEmpty(data["orders"]) \/ SomeSourceMissing)) =>
        /\ master.raised = ""
        /\ IsEmpty(data["orders"]) => master = EmptyFrame

---------------------------------------------------------------------------
(* eda_utils.apply_global_filters                                          *)

\* the five list filters, in the order the function applies them
ListColumns ==
    <<"Priority", "Product_Category", "Origin", "Destination", "Customer_Segment">>

\* filtered[filtered["Order_Date"] >= start_date]; a NaT compares False
DateFromMutant(frame, start) ==
    IF ~Known(start) THEN frame
    ELSE IF "Order_Date" \notin frame.cols THEN Raised("KeyError")
    ELSE Keep(frame, [i \in DOMAIN frame.rows |->
             /\ Known(frame.rows[i]["Order_Date"])
             /\ Val(frame.rows[i]["Order_Date"]) > Val(start)])

DateFrom(frame, start) ==
    IF ~Known(start) THEN frame
    ELSE IF "Order_Date" \notin frame.cols THEN Raised("KeyError")
    ELSE Keep(frame, [i \in DOMAIN frame.rows |->
             /\ Known(frame.rows[i]["Order_Date"])
             /\ Val(frame.rows[i]["Order_Date"]) >= Val(start)])

\* filtered[filtered["Order_Date"] <= end_date]
DateTo(frame, end) ==
    IF ~Known(end) THEN frame
    ELSE IF "Order_Date" \notin frame.cols THEN Raised("KeyError")
    ELSE Keep(frame, [i \in DOMAIN frame.rows |->
             /\ Known(frame.rows[i]["Order_Date"])
             /\ Val(frame.rows[i]["Order_Date"]) <= Val(end)])

\* "if values:" is False for None and for an empty selection
Truthy(values) == Known(values) /\ Val(values) # {}

\* frame[frame[column].isin(values)] when values is truthy; a null is in no list
ApplyListFilter(frame, column, values) ==
    IF Truthy(values)
    THEN Keep(frame, [i \in DOMAIN frame.rows |->
             /\ Known(frame.rows[i][column])
             /\ Val(frame.rows[i][column]) \in Val(values)])
    ELSE frame

\* if column in filtered.columns: filtered = _apply_list_filter(...), for the
\* columns of order, one after the other
RECURSIVE ListFilters(_, _, _)
ListFilters(frame, order, sel) ==
    IF order = <<>> THEN frame
    ELSE ListFilters(IF Head(order) \in frame.cols
                     THEN ApplyListFilter(frame, Head(order), sel[Head(order)])
                     ELSE frame,
                     Tail(order), sel)

apply_global_filters(df, range, sel) ==
    IF IsEmpty(df) THEN df
    ELSE LET from == DateFrom(df, range[1])
             to   == IF from.raised # "" THEN from ELSE DateTo(from, range[2])
         IN  IF to.raised # "" THEN to ELSE ListFilters(to, ListColumns, sel)

---------------------------------------------------------------------------
(* Master tables and sidebar values for apply_global_filters.  Two of the  *)
(* six criteria are varied at a time, in the rows and in the sidebar; the  *)
(* other columns hold one value and their criteria are unset.  One of the  *)
(* two varied columns may be missing from the table.                       *)

MaxFilterRows == 2

ListColumnSet == {ListColumns[i] : i \in DOMAIN ListColumns}

FilterColumns == {"Order_Date"} \cup ListColumnSet

\* the cells a varied column holds
CellsOf(c) ==
    IF c = "Order_Date" THEN {NULL, <<1>>, <<2>>, <<3>>} ELSE {NULL, <<"x">>, <<"y">>}

\* the cell an unvaried column holds
FixedCell(c) == IF c = "Order_Date" THEN <<2>> ELSE <<"x">>

\* a multiselect value: None, nothing selected, one or two values selected
Selections == {NULL, <<{}>>, <<{"x"}>>, <<{"x", "y"}>>}

\* a date bound: None or day 2
Bounds == {NULL, <<2>>}

FilterRows(cols, a, b) ==
    {[c \in cols |-> IF c = a THEN x ELSE IF c = b THEN y ELSE FixedCell(c)] :
        x \in CellsOf(a), y \in CellsOf(b)}

InitFilter ==
    /\ data = Unused
    /\ weights = Unused
    /\ scored_routes = Unused
    /\ WarehouseUnused
    /\ kpis = Unused
    /\ extremes = Unused
    /\ normalized = Unused
    /\ filtered_master = NotComputed
    /\ \E a, b \in FilterColumns :
          /\ a # b
          /\ \E missing \in {{}, {a}} :
                \E rows \in SeqsUpTo(FilterRows(FilterColumns \ missing, a, b),
                                     MaxFilterRows) :
                    master = Frame(FilterColumns \ missing, rows)
          /\ \E s, e \in Bounds :
                /\ date_range = <<s, e>>
                /\ "Order_Date" \notin {a, b} => s = NULL /\ e = NULL
          /\ \E va, vb \in Selections :
                selections = [c \in ListColumnSet |->
                                 IF c = a THEN va ELSE IF c = b THEN vb ELSE NULL]

\* main(): filtered_master = apply_global_filters(master, (start_ts, end_ts), ...)
ApplyFilters ==
    /\ filtered_master = NotComputed
    /\ filtered_master' = apply_global_filters(master, date_range, selections)
    /\ UNCHANGED <<data, master, date_range, selections, weights, scored_routes,
                   warehouse_vars, kpis, extremes, normalized>>

NextFilter == ApplyFilters

SpecFilter == InitFilter /\ [][NextFilter]_vars

---------------------------------------------------------------------------
(* Claims about apply_global_filters (SpecFilter)                          *)

\* a row meets the date range: inclusive bounds, a missing bound is unbounded
InDateRange(row) ==
    /\ Known(date_range[1]) =>
          Known(row["Order_Date"]) /\ Val(row["Order_Date"]) >= Val(date_range[1])
    /\ Known(date_range[2]) =>
          Known(row["Order_Date"]) /\ Val(row["Order_Date"]) <= Val(date_range[2])

\* a row meets the selection of column c: no or an empty selection restricts nothing
InSelection(row, c) ==
    (Known(selections[c]) /\ selections[c] # <<{}>>) =>
        Known(row[c]) /\ Val(row[c]) \in Val(selections[c])

Reverse(s) == [i \in DOMAIN s |-> s[Len(s) + 1 - i]]

\* C8: on a table that has every filter column the result holds exactly the
\* rows meeting all supplied criteria (unset or empty selection: no restriction;
\* date bounds inclusive; a missing bound unbounded), and applying the criteria
\* in another order gives the same table
C8_FilterSemantics ==
    (Computed(filtered_master) /\ FilterColumns \subseteq master.cols) =>
        /\ filtered_master =
              Frame(master.cols,
                    SelectSeq(master.rows, LAMBDA row :
                        InDateRange(row) /\ \A c \in ListColumnSet : InSelection(row, c)))
        /\ filtered_master =
              DateFrom(DateTo(ListFilters(master, Reverse(ListColumns), selections),
                              date_range[2]), date_range[1])

\* both date bounds are day 2, a row of day 2 is kept, and a row is dropped by
\* a one-value selection while another selection is empty
C8_Witness ==
    /\ Computed(filtered_master)
    /\ FilterColumns \subseteq master.cols
    /\ date_range = <<<<2>>, <<2>>>>
    /\ \E i \in DOMAIN filtered_master.rows : filtered_master.rows[i]["Order_Date"] = <<2>>
    /\ \E c \in ListColumnSet :
          /\ selections[c] = <<{"x"}>>
          /\ \E i \in DOMAIN master.rows :
                master.rows[i]["Order_Date"] = <<2>> /\ master.rows[i][c] = <<"y">>
    /\ Len(filtered_master.rows) = 1
    /\ Len(master.rows) = 2

\* C9: a criterion whose column is not in the table is skipped, the other
\* criteria are applied, and the call does not fail
C9_MissingColumnSkipped ==
    Computed(filtered_master) =>
        filtered_master =
            Frame(master.cols,
                  SelectSeq(master.rows, LAMBDA row :
                      /\ "Order_Date" \in master.cols => InDateRange(row)
                      /\ \A c \in ListColumnSet \cap master.cols : InSelection(row, c)))

---------------------------------------------------------------------------
(* route_planner.compute_route_scores.  The three signals are integers;    *)
(* a normalised value and a score are exact quotients (Ratio), compared by *)
(* cross-multiplication.  The weights are whole hundredths.                *)

Column(df, c) == [i \in DOMAIN df.rows |-> df.rows[i][c]]

KnownValues(series) == {Val(series[i]) : i \in {j \in DOMAIN series : Known(series[j])}}

Minimum(S) == CHOOSE x \in S : \A y \in S : x <= y

Maximum(S) == CHOOSE x \in S : \A y \in S : y <= x

\* the scaling without the minimum taken off
NormalizeMutant(series) ==
    IF series = <<>> THEN series
    ELSE LET known == KnownValues(series)
         IN  IF known = {} \/ Maximum(known) = Minimum(known)
             THEN [i \in DOMAIN series |-> <<Ratio(0, 1)>>]
             ELSE [i \in DOMAIN series |->
                      IF Known(series[i])
                      THEN <<Ratio(Val(series[i]), Maximum(known) - Minimum(known))>>
                      ELSE NULL]

\* the scaling without the test for a constant or undefined series
NormalizeUnguardedMutant(series) ==
    IF series = <<>> THEN series
    ELSE LET known == KnownValues(series)
         IN  [i \in DOMAIN series |->
                 IF Known(series[i])
                 THEN <<Ratio(Val(series[i]) - Minimum(known),
                              Maximum(known) - Minimum(known))>>
                 ELSE NULL]

\* _normalize_series: min-max scaling; zeros when the series is constant or
\* its minimum or maximum is NaN
_normalize_series(series) ==
    IF series = <<>> THEN series
    ELSE LET known == KnownValues(series)
         IN  IF known = {} \/ Maximum(known) = Minimum(known)
             THEN [i \in DOMAIN series |-> <<Ratio(0, 1)>>]
             ELSE [i \in DOMAIN series |->
                      IF Known(series[i])
                      THEN <<Ratio(Val(series[i]) - Minimum(known),
                                   Maximum(known) - Minimum(known))>>
                      ELSE NULL]

required_cols == {"Order_ID", "Total_Delivery_Cost", "Delivery_Delay_Days", "Estimated_CO2_kg"}

optional_cols == {"Origin", "Destination", "Carrier", "Priority"}

\* raise ValueError(f"Missing columns for route scoring: {missing_cols}")
ValueError(missing_cols) ==
    [raised |-> "ValueError", missing |-> missing_cols, cols |-> {}, rows |-> <<>>]

\* master[list(required_cols) + optional_cols].copy()
Project(df, cols) ==
    Frame(cols, [i \in DOMAIN df.rows |-> [c \in cols |-> df.rows[i][c]]])

\* the score with a fixed weight on the emissions in place of ew
RouteScoreMutant(w, cn, dn, en) ==
    IF Known(cn) /\ Known(dn) /\ Known(en)
    THEN <<Ratio(w[1] * Val(cn).num * Val(dn).den * Val(en).den
                 + w[2] * Val(dn).num * Val(cn).den * Val(en).den
                 + 50 * Val(en).num * Val(cn).den * Val(dn).den,
                 Val(cn).den * Val(dn).den * Val(en).den)>>
    ELSE NULL

\* cw * Cost_norm + tw * Delay_norm + ew * Emission_norm, NaN propagating
RouteScore(w, cn, dn, en) ==
    IF Known(cn) /\ Known(dn) /\ Known(en)
    THEN <<Ratio(w[1] * Val(cn).num * Val(dn).den * Val(en).den
                 + w[2] * Val(dn).num * Val(cn).den * Val(en).den
                 + w[3] * Val(en).num * Val(cn).den * Val(dn).den,
                 Val(cn).den * Val(dn).den * Val(en).den)>>
    ELSE NULL

WithScores(df, w) ==
    LET filled(c) == [i \in DOMAIN df.rows |-> FillNa(df.rows[i][c], 0)]
        cn == _normalize_series(filled("Total_Delivery_Cost"))
        dn == _normalize_series(filled("Delivery_Delay_Days"))
        en == _normalize_series(filled("Estimated_CO2_kg"))
    IN  WithColumn(WithColumn(WithColumn(WithColumn(df, "Cost_norm", cn),
                                         "Delay_norm", dn),
                              "Emission_norm", en),
                   "Route_Score",
                   [i \in DOMAIN df.rows |-> RouteScore(w, cn[i], dn[i], en[i])])

\* x sorts before or with y: ascending, NaN last
ScoreLeq(x, y) ==
    IF ~Known(y) THEN TRUE
    ELSE IF ~Known(x) THEN FALSE
    ELSE Val(x).num * Val(y).den <= Val(y).num * Val(x).den

\* the sequences that list every element of S once
RECURSIVE OrdersOf(_)
OrdersOf(S) ==
    IF S = {} THEN {<<>>} ELSE UNION {{<<x>> \o p : p \in OrdersOf(S \ {x})} : x \in S}

\* the permutations of 1..n
RowOrders(n) == OrdersOf(1..n)

\* sort_values: the row orders the sort may produce, where leq[i, j] says
\* that row i's value sorts before or with row j's.  The default sort is not
\* stable, so rows of equal value may come out in any order.
SortOrders(n, leq) ==
    {p \in RowOrders(n) : \A i \in 1..(n - 1) : leq[p[i], p[i + 1]]}

Permute(df, p) == [df EXCEPT !.rows = [i \in DOMAIN @ |-> @[p[i]]]]

\* sort_values("Route_Score")
SortedByScore(df) ==
    {Permute(df, p) :
        p \in SortOrders(Len(df.rows),
                         [i \in DOMAIN df.rows, j \in DOMAIN df.rows |->
                             ScoreLeq(df.rows[i]["Route_Score"],
                                      df.rows[j]["Route_Score"])])}

\* the required columns examined first, ahead of the test for an
\* empty table
ScoresOfEmptyMutant(m) ==
    IF required_cols \ m.cols # {} THEN ValueError(required_cols \ m.cols) ELSE EmptyFrame

\* if master.empty: return pd.DataFrame()
ScoresOfEmpty(m) == EmptyFrame

\* the results the call may produce: one, but for the order of equal scores
compute_route_scores(m, w) ==
    IF IsEmpty(m) THEN {ScoresOfEmpty(m)}
    ELSE IF required_cols \ m.cols # {} THEN {ValueError(required_cols \ m.cols)}
    ELSE SortedByScore(WithScores(Project(m, required_cols \cup (optional_cols \cap m.cols)),
                                  w))

\* x sorts before or with y under ascending=False, were the order ascending
ScoreGeqMutant(x, y) == ScoreLeq(x, y)

\* x sorts before or with y under ascending=False: descending, NaN last
ScoreGeq(x, y) ==
    IF ~Known(y) THEN TRUE
    ELSE IF ~Known(x) THEN FALSE
    ELSE Val(x).num * Val(y).den >= Val(y).num * Val(x).den

\* DataFrame.head(n), n >= 0
FrameHead(df, n) ==
    [df EXCEPT !.rows = SubSeq(@, 1, IF n < Len(@) THEN n ELSE Len(@))]

\* DataFrame.tail(n), n >= 0
FrameTail(df, n) ==
    [df EXCEPT !.rows = SubSeq(@, IF n < Len(@) THEN Len(@) - n + 1 ELSE 1, Len(@))]

\* sort_values("Route_Score", ascending=False)
SortedByScoreDescending(df) ==
    {Permute(df, p) :
        p \in SortOrders(Len(df.rows),
                         [i \in DOMAIN df.rows, j \in DOMAIN df.rows |->
                             ScoreGeq(df.rows[i]["Route_Score"],
                                      df.rows[j]["Route_Score"])])}

\* the results the call may produce, each with the top_n it was given
best_and_worst_routes(scored, top_n) ==
    IF IsEmpty(scored)
    THEN {[top_n |-> top_n, best |-> EmptyFrame, worst |-> EmptyFrame]}
    ELSE {[top_n |-> top_n, best |-> FrameHead(scored, top_n), worst |-> worst] :
             worst \in SortedByScoreDescending(FrameTail(scored, top_n))}

---------------------------------------------------------------------------
(* Inputs of the scoring model: tables of up to MaxScoreRows orders whose  *)
(* three signals each take one of two values, the delay being unknown in   *)
(* some rows; tables of one more row in which one signal varies, unknown   *)
(* values included; tables that lack some of the required columns (with    *)
(* and without rows); and the table without columns that an empty load     *)
(* yields.                                                                 *)

MaxScoreRows == 2

OrderNames == <<"O1", "O2", "O3", "O4">>

SignalCells(c) ==
    IF c = "Delivery_Delay_Days" THEN {NULL, <<-1>>, <<2>>} ELSE {NULL, <<1>>, <<3>>}

\* the cells of the tables in which every signal varies: the delay may be
\* unknown there, the cost and the emission are known
VaryingCells(c) == IF c = "Delivery_Delay_Days" THEN SignalCells(c) ELSE SignalCells(c) \ {NULL}

ScoreColumns == required_cols \cup {"Origin"}

ScoreRow(i, cost, delay, emission) ==
    [c \in ScoreColumns |->
        CASE c = "Order_ID" -> <<OrderNames[i]>>
          [] c = "Total_Delivery_Cost" -> cost
          [] c = "Delivery_Delay_Days" -> delay
          [] c = "Estimated_CO2_kg" -> emission
          [] OTHER -> <<"w">>]

ScoreRowSeqs(n) ==
    {[i \in 1..n |-> ScoreRow(i, cs[i], ds[i], es[i])] :
        cs \in [1..n -> VaryingCells("Total_Delivery_Cost")],
        ds \in [1..n -> VaryingCells("Delivery_Delay_Days")],
        es \in [1..n -> VaryingCells("Estimated_CO2_kg")]}

\* a table that lacks the columns `missing`, its rows holding one fixed value
\* per signal
LackingTable(missing, n) ==
    Frame(ScoreColumns \ missing,
          [i \in 1..n |-> [c \in ScoreColumns \ missing |->
                              ScoreRow(i, <<1>>, <<2>>, <<3>>)[c]]])

SignalColumns == {"Total_Delivery_Cost", "Delivery_Delay_Days", "Estimated_CO2_kg"}

\* a table of one more row in which one signal varies and the two others
\* hold the same value in every row
FocusTable(focus, cells) ==
    Frame(ScoreColumns,
          [i \in DOMAIN cells |->
              [ScoreRow(i, <<1>>, <<2>>, <<3>>) EXCEPT ![focus] = cells[i]]])

RouteWeightSets == {<<40, 35, 25>>, <<80, 70, 50>>, <<100, 0, 0>>}

InitScore ==
    /\ data = Unused
    /\ master = Unused
    /\ date_range = Unused
    /\ selections = Unused
    /\ scored_routes = NotComputed
    /\ WarehouseUnused
    /\ kpis = Unused
    /\ extremes = NotComputed
    /\ normalized = NotComputed
    /\ weights \in RouteWeightSets
    /\ \/ filtered_master = EmptyFrame
       \/ \E n \in 0..MaxScoreRows : \E rows \in ScoreRowSeqs(n) :
              filtered_master = Frame(ScoreColumns, rows)
       \/ \E missing \in (SUBSET required_cols) \ {{}} : \E n \in 0..MaxScoreRows :
              filtered_master = LackingTable(missing, n)
       \/ \E focus \in SignalColumns : \E cells \in [1..(MaxScoreRows + 1) -> SignalCells(focus)] :
              filtered_master = FocusTable(focus, cells)

\* app.main: scored_routes = compute_route_scores(filtered_master, weights).
\* A behaviour follows one caller: app.main, or a call of _normalize_series
\* alone.
ComputeRouteScores ==
    /\ scored_routes = NotComputed
    /\ normalized = NotComputed
    /\ scored_routes' \in compute_route_scores(filtered_master, weights)
    /\ UNCHANGED <<data, master, date_range, selections, filtered_master, weights,
                   warehouse_vars, kpis, extremes, normalized>>

TopNs == {1, 2, 10}

\* app.main: extremes = best_and_worst_routes(scored_routes, top_n=10), reached
\* when compute_route_scores has returned
BestAndWorstRoutes ==
    /\ Returned(scored_routes)
    /\ extremes = NotComputed
    /\ \E n \in TopNs : extremes' \in best_and_worst_routes(scored_routes, n)
    /\ UNCHANGED <<data, master, date_range, selections, filtered_master, weights,
                   scored_routes, warehouse_vars, kpis, normalized>>

\* _normalize_series called on a signal column of the table as it stands,
\* its nulls not filled
NormalizeSeries ==
    /\ normalized = NotComputed
    /\ scored_routes = NotComputed
    /\ \E c \in SignalColumns \cap filtered_master.cols :
           normalized' = [series |-> Column(filtered_master, c),
                          result |-> _normalize_series(Column(filtered_master, c))]
    /\ UNCHANGED <<data, master, date_range, selections, filtered_master, weights,
                   scored_routes, warehouse_vars, kpis, extremes>>

NextScore == ComputeRouteScores \/ BestAndWorstRoutes \/ NormalizeSeries

SpecScore == InitScore /\ [][NextScore]_vars

---------------------------------------------------------------------------
(* Claims about route scoring.                                             *)

Scored == scored_routes # NotComputed

MissingRequired == required_cols \ filtered_master.cols

\* C10 as stated: a master table lacking a required column makes
\* compute_route_scores raise the ValueError that names the missing columns,
\* whether or not the table has rows.
C10_PreconditionAlways ==
    (Scored /\ MissingRequired # {}) => scored_routes = ValueError(MissingRequired)

\* C10, amended: a master table WITH rows that lacks a required column makes
\* compute_route_scores raise the ValueError that names the missing columns,
\* and no scored table is returned; a table without rows yields the empty
\* result and no failure, whichever columns it has.
C10_ScoringPrecondition ==
    (Scored /\ MissingRequired # {}) =>
        IF IsEmpty(filtered_master)
        THEN scored_routes = EmptyFrame
        ELSE scored_routes = ValueError(MissingRequired)

C10_Witness ==
    /\ ~IsEmpty(filtered_master)
    /\ MissingRequired = {"Total_Delivery_Cost", "Estimated_CO2_kg"}
    /\ scored_routes = ValueError({"Total_Delivery_Cost", "Estimated_CO2_kg"})

---------------------------------------------------------------------------
(* The warehouse tab: data_loader.compute_order_demand,                    *)
(* eda_utils.compute_stock_cover and warehouse_optimizer.  The order rows  *)
(* are held as the bag of their (Origin, Product_Category) pairs: a        *)
(* function from the pairs that occur to the number of order rows bearing  *)
(* them (an Order_ID is never null, so "count" counts the rows).  The      *)
(* order value, which no flag or plan depends on, is left out.  Stock      *)
(* levels, reorder levels and order counts are whole numbers, a stock      *)
(* level may be unknown (NaN), and each (Warehouse, Product_Category) pair *)
(* has at most one inventory row.                                          *)

Larger(a, b) == IF a >= b THEN a ELSE b

\* min(a, b)
Smaller(a, b) == IF b < a THEN b ELSE a

\* some listing of the set S as a sequence
RECURSIVE SeqOf(_)
SeqOf(S) ==
    IF S = {} THEN <<>>
    ELSE LET x == CHOOSE y \in S : TRUE IN <<x>> \o SeqOf(S \ {x})

DemandColumns == {"Warehouse", "Product_Category", "Orders_Count"}

\* compute_order_demand: one row per (Origin, Product_Category) pair without
\* a null, counting its orders; no columns at all when there is no order
compute_order_demand(orders) ==
    IF DOMAIN orders = {} THEN EmptyFrame
    ELSE Frame(DemandColumns,
               SeqOf({[c \in DemandColumns |->
                          CASE c = "Warehouse" -> o.Origin
                            [] c = "Product_Category" -> o.Product_Category
                            [] OTHER -> <<orders[o]>>] :
                      o \in {x \in DOMAIN orders :
                                Known(x.Origin) /\ Known(x.Product_Category)}}))

\* the Orders_Count brought by a merge on "Warehouse" alone
DemandForMutant(demand, row) ==
    LET m == {j \in DOMAIN demand.rows : demand.rows[j]["Warehouse"] = row["Warehouse"]}
    IN  IF m = {} THEN NULL ELSE demand.rows[CHOOSE j \in m : TRUE]["Orders_Count"]

\* the Orders_Count that the left merge on ["Warehouse", "Product_Category"]
\* brings to an inventory row: the demand rows have distinct keys, so at most
\* one matches
DemandFor(demand, row) ==
    LET m == {j \in DOMAIN demand.rows :
                 /\ demand.rows[j]["Warehouse"] = row["Warehouse"]
                 /\ demand.rows[j]["Product_Category"] = row["Product_Category"]}
    IN  IF m = {} THEN NULL ELSE demand.rows[CHOOSE j \in m : TRUE]["Orders_Count"]

MIN_STOCK_COVER_DAYS == 7

DemandWindowDays == 30

OverstockFactor == 4

\* np.inf, as a quotient
Infinity == Ratio(1, 0)

\* row["Stock_Level"] / row["Estimated_Daily_Demand"] if the demand is
\* positive, else np.inf; the quotient of an unknown stock level is NaN
StockCoverDays(stock, daily) ==
    IF daily.num > 0
    THEN IF Known(stock) THEN <<Ratio(Val(stock) * daily.den, daily.num)>> ELSE NULL
    ELSE <<Infinity>>

\* quotient < k and quotient > k, for a whole number k
Below(q, k) == q.den # 0 /\ q.num < k * q.den

Above(q, k) == q.den = 0 \/ q.num > k * q.den

compute_stock_cover(inv, demand) ==
    IF IsEmpty(inv) THEN EmptyFrame
    ELSE IF ~({"Warehouse", "Product_Category"} \subseteq (inv.cols \cap demand.cols))
    THEN Raised("KeyError")
    ELSE LET count == [i \in DOMAIN inv.rows |-> FillNa(DemandFor(demand, inv.rows[i]), 0)]
             daily == [i \in DOMAIN inv.rows |-> Ratio(Val(count[i]), DemandWindowDays)]
             cover == [i \in DOMAIN inv.rows |->
                          StockCoverDays(inv.rows[i]["Stock_Level"], daily[i])]
             under == [i \in DOMAIN inv.rows |->
                          <<\/ /\ Known(inv.rows[i]["Stock_Level"])
                               /\ Val(inv.rows[i]["Stock_Level"]) < Val(inv.rows[i]["Reorder_Level"])
                            \/ /\ Known(cover[i])
                               /\ Below(Val(cover[i]), MIN_STOCK_COVER_DAYS)>>]
             over  == [i \in DOMAIN inv.rows |->
                          <<Known(cover[i])
                              /\ Above(Val(cover[i]), MIN_STOCK_COVER_DAYS * OverstockFactor)>>]
         IN  WithColumn(WithColumn(WithColumn(WithColumn(WithColumn(inv,
                 "Orders_Count", count),
                 "Estimated_Daily_Demand", [i \in DOMAIN inv.rows |-> <<daily[i]>>]),
                 "Stock_Cover_Days", cover),
                 "Understock_Flag", under),
                 "Overstock_Flag", over)

analyse_inventory(inv, orders) == compute_stock_cover(inv, compute_order_demand(orders))

\* group[group[flag]]
Flagged(rows, flag) == MaskRows(rows, [i \in DOMAIN rows |-> Val(rows[i][flag])])

\* df[["Reorder_Level", "Orders_Count"]].fillna(0).max(axis=1), with the
\* order count left out
RowMaxMutant(row) == Val(FillNa(row["Reorder_Level"], 0))

\* df[["Reorder_Level", "Orders_Count"]].fillna(0).max(axis=1)
RowMax(row) ==
    Larger(Val(FillNa(row["Reorder_Level"], 0)), Val(FillNa(row["Orders_Count"], 0)))

\* Series.clip(lower=0)
ClipLower(x) == Larger(x, 0)

\* Stock_Level - max(...), clipped; NaN for an unknown stock level, which
\* clip leaves as it is
Surplus(row) ==
    IF Known(row["Stock_Level"])
    THEN <<ClipLower(Val(row["Stock_Level"]) - RowMax(row))>>
    ELSE NULL

Deficit(row) ==
    IF Known(row["Stock_Level"])
    THEN <<ClipLower(RowMax(row) - Val(row["Stock_Level"]))>>
    ELSE NULL

\* the tests "<= 0" of the loops, were they never to hold
NonPositiveMutant(x) == FALSE

\* x <= 0, which is False of NaN
NonPositive(x) == Known(x) /\ Val(x) <= 0

\* the builtin min(a, b): b if b < a, else a; a comparison with NaN is False
BuiltinMin(a, b) == IF Known(a) /\ Known(b) THEN <<Smaller(Val(a), Val(b))>> ELSE a

\* a - b, NaN if either is
Minus(a, b) == IF Known(a) /\ Known(b) THEN <<Val(a) - Val(b)>> ELSE NULL

TransferColumns == {"Source", "Destination", "Product_Category", "Quantity"}

\* the record appended to transfer_records; the quantity is a whole number
\* or NaN, which round(float(qty), 2) leaves as it is
TransferRecord(source, destination, product, qty) ==
    [c \in TransferColumns |->
        CASE c = "Source" -> source
          [] c = "Destination" -> destination
          [] c = "Product_Category" -> product
          [] OTHER -> qty]

\* the source's surplus after a transfer, were it never decremented
SurplusLeftMutant(available, qty) == available

\* surplus_rows.at[s_idx, "Surplus"] -= transfer_qty
SurplusLeft(available, qty) == Minus(available, qty)

\* the inner loop over surplus_rows from its k-th row on, for one deficit
\* row: the records appended and the surpluses left
RECURSIVE SurplusLoop(_, _, _, _, _, _)
SurplusLoop(sources, surplus, k, remaining_deficit, destination, product) ==
    IF k > Len(sources) THEN [records |-> <<>>, surplus |-> surplus]
    ELSE LET available == surplus[k]
             transfer_qty == BuiltinMin(available, remaining_deficit)
         IN  IF NonPositive(available) \/ NonPositive(transfer_qty)
             THEN SurplusLoop(sources, surplus, k + 1, remaining_deficit, destination, product)
             ELSE LET left == [surplus EXCEPT ![k] = SurplusLeft(available, transfer_qty)]
                      rest == IF NonPositive(Minus(remaining_deficit, transfer_qty))
                              THEN [records |-> <<>>, surplus |-> left]
                              ELSE SurplusLoop(sources, left, k + 1,
                                               Minus(remaining_deficit, transfer_qty),
                                               destination, product)
                  IN  [records |-> <<TransferRecord(sources[k]["Warehouse"], destination,
                                                    product, transfer_qty)>>
                                   \o rest.records,
                       surplus |-> rest.surplus]

\* the outer loop over deficit_rows
RECURSIVE DeficitLoop(_, _, _, _)
DeficitLoop(deficits, sources, surplus, product) ==
    IF deficits = <<>> THEN <<>>
    ELSE IF NonPositive(Deficit(Head(deficits)))
    THEN DeficitLoop(Tail(deficits), sources, surplus, product)
    ELSE LET r == SurplusLoop(sources, surplus, 1, Deficit(Head(deficits)),
                              Head(deficits)["Warehouse"], product)
         IN  r.records \o DeficitLoop(Tail(deficits), sources, r.surplus, product)

\* the orders that sort_values(column, ascending=False) may give the rows:
\* descending, NaN last
DescendingOrders(rows, value) ==
    SortOrders(Len(rows),
               [i \in DOMAIN rows, j \in DOMAIN rows |->
                   \/ ~Known(value[j])
                   \/ Known(value[i]) /\ Val(value[i]) >= Val(value[j])])

\* the body of the loop over the groups, for one product category: the
\* record lists it may append
GroupTransfers(group, product) ==
    LET surplus_rows == Flagged(group, "Overstock_Flag")
        deficit_rows == Flagged(group, "Understock_Flag")
    IN  IF surplus_rows = <<>> \/ deficit_rows = <<>> THEN {<<>>}
        ELSE {DeficitLoop([i \in DOMAIN deficit_rows |-> deficit_rows[dp[i]]],
                          [i \in DOMAIN surplus_rows |-> surplus_rows[sp[i]]],
                          [i \in DOMAIN surplus_rows |-> Surplus(surplus_rows[sp[i]])],
                          product) :
                 sp \in DescendingOrders(surplus_rows,
                                         [i \in DOMAIN surplus_rows |-> Surplus(surplus_rows[i])]),
                 dp \in DescendingOrders(deficit_rows,
                                         [i \in DOMAIN deficit_rows |-> Deficit(deficit_rows[i])])}

\* the product categories, in the order in which groupby visits them
Categories == <<"c1", "c2">>

RECURSIVE AllTransfers(_, _)
AllTransfers(inv, products) ==
    IF products = <<>> THEN {<<>>}
    ELSE {first \o rest :
             first \in GroupTransfers(
                          MaskRows(inv.rows,
                                   [i \in DOMAIN inv.rows |->
                                       inv.rows[i]["Product_Category"] = <<Head(products)>>]),
                          <<Head(products)>>),
             rest \in AllTransfers(inv, Tail(products))}

\* the plans the call may return: one, but for the order of equal surpluses
\* and of equal deficits.  pd.DataFrame([]) has no columns.
recommend_transfers(inv) ==
    IF IsEmpty(inv) THEN {Frame(TransferColumns, <<>>)}
    ELSE {IF records = <<>> THEN EmptyFrame ELSE Frame(TransferColumns, records) :
             records \in AllTransfers(inv, Categories)}

ReorderColumns == {"Warehouse", "Product_Category", "Suggested_Reorder"}

SafetyBuffer == 5

\* enriched_inventory with no row filtered out
UnderstockRowsMutant(inv) == inv.rows

\* enriched_inventory[enriched_inventory["Understock_Flag"]]
UnderstockRows(inv) == Flagged(inv.rows, "Understock_Flag")

\* the suggestion without the buffer added to the order count
SuggestedReorderMutant(row) ==
    ClipLower(Larger(Val(FillNa(row["Reorder_Level"], 0)),
                     Val(FillNa(row["Orders_Count"], 0)))
              - Val(FillNa(row["Stock_Level"], 0)))

SuggestedReorder(row) ==
    ClipLower(Larger(Val(FillNa(row["Reorder_Level"], 0)),
                     Val(FillNa(row["Orders_Count"], 0)) + SafetyBuffer)
              - Val(FillNa(row["Stock_Level"], 0)))

recommend_reorders(inv) ==
    IF IsEmpty(inv) \/ UnderstockRows(inv) = <<>> THEN Frame(ReorderColumns, <<>>)
    ELSE Frame(ReorderColumns,
               [i \in DOMAIN UnderstockRows(inv) |->
                   [c \in ReorderColumns |->
                       IF c = "Suggested_Reorder"
                       THEN <<SuggestedReorder(UnderstockRows(inv)[i])>>
                       ELSE UnderstockRows(inv)[i][c]]])

---------------------------------------------------------------------------
(* Inputs of the warehouse model: up to MaxCells inventory rows, each in   *)
(* a warehouse of its own (or the second in the warehouse of the first, in *)
(* the other category) and in one of the two product categories, the       *)
(* stock level of the first row known or not (a blank in the file), with   *)
(* the orders placed from its warehouse in its category; and possibly one  *)
(* more order: without an origin, from a warehouse that stocks nothing, or *)
(* from the first warehouse in the second category.                        *)

MaxCells == 3

WarehouseNames == <<"W1", "W2", "W3", "W4">>

StockLevels == {5, 30, 100}

ReorderLevels == {20}

\* the rows whose stock level may be unknown
UnknownStockRows == {1}

OrderCounts == {0, 60}

InventoryColumns == {"Warehouse", "Product_Category", "Stock_Level", "Reorder_Level"}

InventoryRow(i, product, stock, reorder) ==
    [c \in InventoryColumns |->
        CASE c = "Warehouse" -> <<WarehouseNames[i]>>
          [] c = "Product_Category" -> <<product>>
          [] c = "Stock_Level" -> stock
          [] OTHER -> <<reorder>>]

\* the warehouse of the i-th inventory row: its own, but the second row is
\* in the first row's warehouse when `shared` and the two categories differ
WarehouseOf(i, products, shared) ==
    IF shared /\ i = 2 /\ products[1] # products[2] THEN 1 ELSE i

OrderKey(origin, product) == [Origin |-> origin, Product_Category |-> product]

NoOrders == [o \in {} |-> 0]

ExtraOrders ==
    {NoOrders,
     [o \in {OrderKey(NULL, <<"c1">>)} |-> 1],
     [o \in {OrderKey(<<"W9">>, <<"c1">>)} |-> 1],
     [o \in {OrderKey(<<"W1">>, <<"c2">>)} |-> 1]}

InitWarehouse ==
    /\ data = Unused
    /\ master = Unused
    /\ date_range = Unused
    /\ selections = Unused
    /\ filtered_master = Unused
    /\ weights = Unused
    /\ scored_routes = Unused
    /\ kpis = Unused
    /\ extremes = Unused
    /\ normalized = Unused
    /\ enriched_inventory = NotComputed
    /\ transfer_plan = NotComputed
    /\ reorder_plan = NotComputed
    /\ \E extra \in ExtraOrders :
          \/ /\ inventory = EmptyFrame
             /\ orders_df = extra
          \/ \E n \in 0..MaxCells :
             \E products \in [1..n -> {"c1", "c2"}], stocks \in [1..n -> StockLevels],
                reorders \in [1..n -> ReorderLevels], counts \in [1..n -> OrderCounts],
                unknown \in SUBSET (1..n \cap UnknownStockRows), shared \in BOOLEAN :
                 /\ inventory = Frame(InventoryColumns,
                                      [i \in 1..n |->
                                          InventoryRow(WarehouseOf(i, products, shared),
                                                       products[i],
                                                       IF i \in unknown THEN NULL
                                                       ELSE <<stocks[i]>>,
                                                       reorders[i])])
                 /\ orders_df =
                        [o \in DOMAIN extra
                               \cup {OrderKey(<<WarehouseNames[WarehouseOf(i, products, shared)]>>,
                                               <<products[i]>>) :
                                        i \in {j \in 1..n : counts[j] > 0}} |->
                            IF o \in DOMAIN extra THEN extra[o]
                            ELSE counts[CHOOSE i \in 1..n :
                                           o = OrderKey(<<WarehouseNames[WarehouseOf(i, products,
                                                                                     shared)]>>,
                                                        <<products[i]>>)]]

\* app.main: enriched_inventory = analyse_inventory(filtered_inventory, orders_df)
AnalyseInventory ==
    /\ enriched_inventory = NotComputed
    /\ enriched_inventory' = analyse_inventory(inventory, orders_df)
    /\ UNCHANGED <<data, master, date_range, selections, filtered_master, weights,
                   scored_routes, inventory, orders_df, transfer_plan, reorder_plan,
                   kpis, extremes, normalized>>

\* app.main: transfer_plan = recommend_transfers(enriched_inventory)
RecommendTransfers ==
    /\ Returned(enriched_inventory)
    /\ transfer_plan = NotComputed
    /\ transfer_plan' \in recommend_transfers(enriched_inventory)
    /\ UNCHANGED <<data, master, date_range, selections, filtered_master, weights,
                   scored_routes, inventory, orders_df, enriched_inventory, reorder_plan,
                   kpis, extremes, normalized>>

\* app.main: reorder_plan = recommend_reorders(enriched_inventory)
RecommendReorders ==
    /\ Returned(enriched_inventory)
    /\ reorder_plan = NotComputed
    /\ reorder_plan' = recommend_reorders(enriched_inventory)
    /\ UNCHANGED <<data, master, date_range, selections, filtered_master, weights,
                   scored_routes, inventory, orders_df, enriched_inventory, transfer_plan,
                   kpis, extremes, normalized>>

NextWarehouse == AnalyseInventory \/ RecommendTransfers \/ RecommendReorders

SpecWarehouse == InitWarehouse /\ [][NextWarehouse]_vars

---------------------------------------------------------------------------
(* Claims about the warehouse tab.  A cell is a row of the enriched        *)
(* inventory; a transfer record names a cell by warehouse and category.    *)

SameCell(row, warehouse, product) ==
    row["Warehouse"] = warehouse /\ row["Product_Category"] = product

\* the total quantity of the plan's records that leave the cell, over the
\* records whose quantity is a number
QuantityOut(plan, row) ==
    SumSeq([k \in DOMAIN plan.rows |->
               IF /\ SameCell(row, plan.rows[k]["Source"], plan.rows[k]["Product_Category"])
                  /\ Known(plan.rows[k]["Quantity"])
               THEN Val(plan.rows[k]["Quantity"]) ELSE 0])

\* the total quantity of the plan's records that enter the cell, over the
\* records whose quantity is a number
QuantityIn(plan, row) ==
    SumSeq([k \in DOMAIN plan.rows |->
               IF /\ SameCell(row, plan.rows[k]["Destination"], plan.rows[k]["Product_Category"])
                  /\ Known(plan.rows[k]["Quantity"])
               THEN Val(plan.rows[k]["Quantity"]) ELSE 0])

Need(row) == Larger(Val(row["Reorder_Level"]), Val(row["Orders_Count"]))

\* C2: in a returned transfer plan the quantities leaving an Overstock cell
\* sum to at most max(stock - max(reorder level, orders count), 0), and the
\* quantities entering an Understock cell sum to at most
\* max(max(reorder level, orders count) - stock, 0).  The bound is a number
\* in the cells whose stock level is known, and the sums run over the
\* quantities that are numbers.
C2_TransferConservation ==
    Returned(transfer_plan) =>
        \A i \in DOMAIN enriched_inventory.rows :
            LET row == enriched_inventory.rows[i]
            IN  /\ (Val(row["Overstock_Flag"]) /\ Known(row["Stock_Level"])) =>
                       QuantityOut(transfer_plan, row)
                           <= Larger(Val(row["Stock_Level"]) - Need(row), 0)
                /\ Val(row["Understock_Flag"]) =>
                       QuantityIn(transfer_plan, row)
                           <= Larger(Need(row) - Val(row["Stock_Level"]), 0)

\* one surplus cell gives all it has to two deficit cells, the second of
\* which stays short
C2_Witness ==
    /\ Returned(transfer_plan)
    /\ Len(transfer_plan.rows) = 2
    /\ \E i, j \in DOMAIN enriched_inventory.rows :
          LET source == enriched_inventory.rows[i]
              short == enriched_inventory.rows[j]
          IN  /\ Val(source["Overstock_Flag"])
              /\ QuantityOut(transfer_plan, source) = Val(source["Stock_Level"]) - Need(source)
              /\ transfer_plan.rows[1]["Source"] = source["Warehouse"]
              /\ transfer_plan.rows[2]["Source"] = source["Warehouse"]
              /\ Val(short["Understock_Flag"])
              /\ QuantityIn(transfer_plan, short) > 0
              /\ QuantityIn(transfer_plan, short) < Need(short) - Val(short["Stock_Level"])

OrdersFor(row) ==
    IF OrderKey(row["Warehouse"], row["Product_Category"]) \in DOMAIN orders_df
    THEN orders_df[OrderKey(row["Warehouse"], row["Product_Category"])]
    ELSE 0

\* rows a and b of the inventory are the cells A and B of the example, and
\* the only cells of their product category
IsExample(a, b) ==
    LET A == inventory.rows[a]
        B == inventory.rows[b]
    IN  /\ A["Stock_Level"] = <<100>> /\ A["Reorder_Level"] = <<20>> /\ OrdersFor(A) = 0
        /\ B["Stock_Level"] = <<5>> /\ B["Reorder_Level"] = <<20>> /\ OrdersFor(B) = 60
        /\ A["Product_Category"] = B["Product_Category"]
        /\ \A i \in DOMAIN inventory.rows :
               inventory.rows[i]["Product_Category"] = A["Product_Category"] => i \in {a, b}

\* the plan's records for a product category
RecordsOf(plan, product) ==
    MaskRows(plan.rows, [k \in DOMAIN plan.rows |-> plan.rows[k]["Product_Category"] = product])

ExampleFlags(a, b) ==
    /\ Returned(enriched_inventory)
    /\ Val(enriched_inventory.rows[a]["Overstock_Flag"])
    /\ Val(enriched_inventory.rows[b]["Understock_Flag"])

\* C5 as stated: in the example, A is flagged Overstock and B Understock, and
\* the plan moves at most min(100 - 20, 20 - 5) = 15 units from A to B.
C5_ExampleAtMost15 ==
    \A a, b \in DOMAIN inventory.rows :
        (IsExample(a, b) /\ Computed(transfer_plan)) =>
            /\ ExampleFlags(a, b)
            /\ Returned(transfer_plan)
            /\ QuantityOut(transfer_plan, enriched_inventory.rows[a]) <= 15

\* C5, amended: in the example, A is flagged Overstock and B Understock, and
\* the plan holds, for their category, the single record that moves
\* min(100 - 20, max(20, 60) - 5) = 55 units from A to B.
C5_ExampleScenario ==
    \A a, b \in DOMAIN inventory.rows :
        IsExample(a, b) =>
            /\ Computed(enriched_inventory) => ExampleFlags(a, b)
            /\ Computed(transfer_plan) =>
                   /\ Returned(transfer_plan)
                   /\ RecordsOf(transfer_plan, inventory.rows[a]["Product_Category"])
                          = <<TransferRecord(inventory.rows[a]["Warehouse"],
                                             inventory.rows[b]["Warehouse"],
                                             inventory.rows[a]["Product_Category"], <<55>>)>>

C5_Witness ==
    /\ Len(inventory.rows) = 2
    /\ IsExample(1, 2)
    /\ ExampleFlags(1, 2)
    /\ Returned(transfer_plan)
    /\ transfer_plan.rows = <<TransferRecord(<<"W1">>, <<"W2">>, <<"c1">>, <<55>>)>>

\* the plan's suggestion for a cell: that of its row, and 0 without a row
SuggestedFor(plan, row) ==
    LET m == {k \in DOMAIN plan.rows :
                 SameCell(row, plan.rows[k]["Warehouse"], plan.rows[k]["Product_Category"])}
    IN  IF m = {} THEN 0 ELSE Val(plan.rows[CHOOSE k \in m : TRUE]["Suggested_Reorder"])

\* C7: in a returned reorder plan every suggested quantity is >= 0, every
\* row is that of an inventory cell, and a cell that is not flagged
\* Understock is suggested 0 (it has no row).
C7_ReorderNonNegative ==
    Returned(reorder_plan) =>
        /\ \A k \in DOMAIN reorder_plan.rows :
               /\ Val(reorder_plan.rows[k]["Suggested_Reorder"]) >= 0
               /\ \E i \in DOMAIN enriched_inventory.rows :
                      SameCell(enriched_inventory.rows[i], reorder_plan.rows[k]["Warehouse"],
                               reorder_plan.rows[k]["Product_Category"])
        /\ \A i \in DOMAIN enriched_inventory.rows :
               LET row == enriched_inventory.rows[i]
               IN  /\ SuggestedFor(reorder_plan, row) >= 0
                   /\ ~Val(row["Understock_Flag"]) => SuggestedFor(reorder_plan, row) = 0

\* an Understock cell is suggested 65 - 5 = 60 units next to a cell with
\* orders that is not Understock and is suggested none
C7_Witness ==
    /\ Returned(reorder_plan)
    /\ \E i, j \in DOMAIN enriched_inventory.rows :
          /\ Val(enriched_inventory.rows[i]["Understock_Flag"])
          /\ SuggestedFor(reorder_plan, enriched_inventory.rows[i]) = 60
          /\ ~Val(enriched_inventory.rows[j]["Understock_Flag"])
          /\ Val(enriched_inventory.rows[j]["Orders_Count"]) = 60
          /\ SuggestedFor(reorder_plan, enriched_inventory.rows[j]) = 0

\* C11: no row of the enriched inventory is flagged both Understock and
\* Overstock.
C11_ClassificationExclusive ==
    Returned(enriched_inventory) =>
        \A i \in DOMAIN enriched_inventory.rows :
            ~(Val(enriched_inventory.rows[i]["Understock_Flag"])
              /\ Val(enriched_inventory.rows[i]["Overstock_Flag"]))

---------------------------------------------------------------------------
(* Further claims about create_master_orders.                             *)

\* C12: in every row of a returned master, an unknown distance leaves both
\* Cost_per_km and Estimated_CO2_kg unknown, and a distance <= 0 leaves
\* Cost_per_km unknown.
C12_UnknownPropagation ==
    Returned(master) =>
        \A i \in DOMAIN master.rows :
            LET row == master.rows[i]
            IN  /\ ~Known(row["Distance_km"]) =>
                       ~Known(row["Cost_per_km"]) /\ ~Known(row["Estimated_CO2_kg"])
                /\ (Known(row["Distance_km"]) /\ Val(row["Distance_km"]) <= 0) =>
                       ~Known(row["Cost_per_km"])

---------------------------------------------------------------------------
(* eda_utils.calculate_overall_kpis.  A mean is kept as the exact quotient *)
(* of the sum of the known values by their number.                         *)

\* master.get(col, pd.Series(dtype=float))
GetSeries(df, c) == IF c \in df.cols THEN Column(df, c) ELSE <<>>

\* float(Series.sum()): nulls are skipped, and the sum of nothing is 0.0
SeriesSum(series) ==
    <<SumSeq([i \in DOMAIN series |-> IF Known(series[i]) THEN Val(series[i]) ELSE 0])>>

\* float(Series.mean()): nulls are skipped, and the mean of nothing is NaN
SeriesMean(series) ==
    LET known == SelectSeq(series, Known)
    IN  IF known = <<>> THEN NULL
        ELSE <<Ratio(SumSeq([i \in DOMAIN known |-> Val(known[i])]), Len(known))>>

calculate_overall_kpis(m) ==
    IF IsEmpty(m)
    THEN [total_orders |-> <<0>>, total_revenue |-> <<0>>, on_time_rate |-> NULL,
          avg_delay |-> NULL, avg_cost_per_order |-> NULL, total_emissions |-> <<0>>]
    ELSE [total_orders |-> <<Len(m.rows)>>,
          total_revenue |-> SeriesSum(GetSeries(m, "Order_Value_INR")),
          on_time_rate |-> SeriesMean(GetSeries(m, "On_Time_Flag")),
          avg_delay |-> SeriesMean(GetSeries(m, "Delivery_Delay_Days")),
          avg_cost_per_order |-> SeriesMean(GetSeries(m, "Total_Delivery_Cost")),
          total_emissions |-> SeriesSum(GetSeries(m, "Estimated_CO2_kg"))]

---------------------------------------------------------------------------
(* Inputs of the KPI model: tables of up to MaxKpiRows orders in which     *)
(* each of the five KPI columns is, row by row, null or a value fixed by   *)
(* the row; and tables that lack some of the five columns.                 *)

MaxKpiRows == 2

KpiColumns ==
    {"Order_Value_INR", "On_Time_Flag", "Delivery_Delay_Days", "Total_Delivery_Cost",
     "Estimated_CO2_kg"}

\* the value that row i holds in column c when it is not null
KpiValue(c, i) ==
    CASE c = "Order_Value_INR" -> 10 * i
      [] c = "On_Time_Flag" -> i % 2
      [] c = "Delivery_Delay_Days" -> i - 2
      [] c = "Total_Delivery_Cost" -> 4 * i
      [] OTHER -> i

KpiRow(i, cols, nulls) ==
    [c \in cols \cup {"Order_ID"} |->
        IF c = "Order_ID" THEN <<OrderNames[i]>>
        ELSE IF c \in nulls THEN NULL ELSE <<KpiValue(c, i)>>]

InitKpi ==
    /\ data = Unused
    /\ master = Unused
    /\ date_range = Unused
    /\ selections = Unused
    /\ weights = Unused
    /\ scored_routes = Unused
    /\ WarehouseUnused
    /\ extremes = Unused
    /\ normalized = Unused
    /\ kpis = NotComputed
    /\ \/ filtered_master = EmptyFrame
       \/ \E n \in 0..MaxKpiRows : \E nulls \in [1..n -> SUBSET KpiColumns] :
              filtered_master = Frame(KpiColumns \cup {"Order_ID"},
                                      [i \in 1..n |-> KpiRow(i, KpiColumns, nulls[i])])
       \/ \E n \in 1..MaxKpiRows : \E missing \in (SUBSET KpiColumns) \ {{}} :
              filtered_master = Frame((KpiColumns \ missing) \cup {"Order_ID"},
                                      [i \in 1..n |-> KpiRow(i, KpiColumns \ missing, {})])

\* app.main: kpis = calculate_overall_kpis(filtered_master)
CalculateKpis ==
    /\ kpis = NotComputed
    /\ kpis' = calculate_overall_kpis(filtered_master)
    /\ UNCHANGED <<data, master, date_range, selections, filtered_master, weights,
                   scored_routes, warehouse_vars, extremes, normalized>>

NextKpi == CalculateKpis

SpecKpi == InitKpi /\ [][NextKpi]_vars

\* the table has the column and every cell of it is null
AllNull(df, c) == c \in df.cols /\ \A i \in DOMAIN df.rows : ~Known(df.rows[i][c])

\* C13: on a non-empty table, each of the five KPIs taken over a column
\* whose cells are all null is NaN.
C13_UndefinedKpis ==
    (kpis # NotComputed /\ ~IsEmpty(filtered_master)) =>
        /\ AllNull(filtered_master, "Order_Value_INR") => kpis.total_revenue = NULL
        /\ AllNull(filtered_master, "On_Time_Flag") => kpis.on_time_rate = NULL
        /\ AllNull(filtered_master, "Delivery_Delay_Days") => kpis.avg_delay = NULL
        /\ AllNull(filtered_master, "Total_Delivery_Cost") => kpis.avg_cost_per_order = NULL
        /\ AllNull(filtered_master, "Estimated_CO2_kg") => kpis.total_emissions = NULL

---------------------------------------------------------------------------
(* Further claims about route scoring.                                     *)

\* the orders, by Order_ID, in which the call may return the rows
PossibleOrders(m, w) == {IdsOf(r) : r \in compute_route_scores(m, w)}

Scale(w, k) == <<k * w[1], k * w[2], k * w[3]>>

ScaleFactors == {2, 3}

\* C14: the order in which compute_route_scores returned the rows is one it
\* may return under the weights multiplied by 2 or by 3, and the orders it
\* may return are the same under both triples (they differ at equal scores
\* only).
C14_WeightScaleInvariance ==
    (Scored /\ Returned(scored_routes) /\ ~IsEmpty(scored_routes)) =>
        LET unscaled == PossibleOrders(filtered_master, weights)
        IN  \A k \in ScaleFactors :
                LET scaled == PossibleOrders(filtered_master, Scale(weights, k))
                IN  IdsOf(scored_routes) \in scaled /\ scaled = unscaled

\* two rows of distinct scores that the sort has exchanged, under
\* (0.4, 0.35, 0.25), in the one order possible under (0.8, 0.7, 0.5)
C14_Witness ==
    /\ Scored /\ Returned(scored_routes)
    /\ weights = <<40, 35, 25>>
    /\ IdsOf(scored_routes) = <<<<"O2">>, <<"O1">>>>
    /\ PossibleOrders(filtered_master, <<80, 70, 50>>) = {<<<<"O2">>, <<"O1">>>>}

\* the column that holds the normalized values of a signal
NormColumn(c) ==
    CASE c = "Total_Delivery_Cost" -> "Cost_norm"
      [] c = "Delivery_Delay_Days" -> "Delay_norm"
      [] OTHER -> "Emission_norm"

\* the values of a signal over the scored rows, a null counting as 0
FilledValues(df, c) == {Val(FillNa(df.rows[i][c], 0)) : i \in DOMAIN df.rows}

\* C15: in a returned scored table, for each signal whose values (nulls as
\* 0) are not all equal, every normalized value is a number in [0,1], it is
\* 0 in the rows holding the minimum and 1 in the rows holding the maximum.
C15_NormalizationBounds ==
    (Scored /\ Returned(scored_routes) /\ ~IsEmpty(scored_routes)) =>
        \A c \in SignalColumns :
            Cardinality(FilledValues(scored_routes, c)) > 1 =>
                \A i \in DOMAIN scored_routes.rows :
                    LET row == scored_routes.rows[i]
                        x == Val(FillNa(row[c], 0))
                        norm == row[NormColumn(c)]
                    IN  /\ Known(norm)
                        /\ Val(norm).den > 0
                        /\ 0 <= Val(norm).num /\ Val(norm).num <= Val(norm).den
                        /\ x = Minimum(FilledValues(scored_routes, c)) => Val(norm).num = 0
                        /\ x = Maximum(FilledValues(scored_routes, c))
                               => Val(norm).num = Val(norm).den

\* three delays -1, unknown and 2: the unknown one counts as 0 and is
\* normalized to 1/3, strictly between the minimum's 0 and the maximum's 1
C15_Witness ==
    /\ Scored /\ Returned(scored_routes)
    /\ \E i, j, k \in DOMAIN scored_routes.rows :
          /\ scored_routes.rows[i]["Delivery_Delay_Days"] = <<-1>>
          /\ scored_routes.rows[i]["Delay_norm"] = <<Ratio(0, 3)>>
          /\ scored_routes.rows[j]["Delivery_Delay_Days"] = NULL
          /\ scored_routes.rows[j]["Delay_norm"] = <<Ratio(1, 3)>>
          /\ scored_routes.rows[k]["Delivery_Delay_Days"] = <<2>>
          /\ scored_routes.rows[k]["Delay_norm"] = <<Ratio(3, 3)>>

ScoreOf(row) == row["Route_Score"]

\* the smaller of n and the number of rows
AtMost(n, df) == IF n < Len(df.rows) THEN n ELSE Len(df.rows)

\* C16: a returned scored table is in non-decreasing order of Route_Score;
\* 'best' is its first top_n rows in that order, 'worst' holds its last
\* top_n rows in non-increasing order of score, its first row bearing the
\* maximum score of the whole table; both hold all the rows when there are
\* fewer than top_n.
C16_RankingOrder ==
    /\ (Scored /\ Returned(scored_routes)) =>
           \A i \in 1..(Len(scored_routes.rows) - 1) :
               /\ Known(ScoreOf(scored_routes.rows[i]))
               /\ ScoreLeq(ScoreOf(scored_routes.rows[i]), ScoreOf(scored_routes.rows[i + 1]))
    /\ (extremes # NotComputed /\ ~IsEmpty(scored_routes)) =>
           LET n == AtMost(extremes.top_n, scored_routes)
               len == Len(scored_routes.rows)
               worst == extremes.worst.rows
           IN  /\ extremes.best.rows = [i \in 1..n |-> scored_routes.rows[i]]
               /\ Len(worst) = n
               /\ \E p \in RowOrders(n) :
                      worst = [i \in 1..n |-> scored_routes.rows[len - n + p[i]]]
               /\ \A i \in 1..(n - 1) : ScoreLeq(ScoreOf(worst[i + 1]), ScoreOf(worst[i]))
               /\ \A i \in 1..len :
                      ScoreLeq(ScoreOf(scored_routes.rows[i]), ScoreOf(worst[1]))

\* three rows of distinct scores and top_n = 2: 'best' is the first two,
\* 'worst' the third and then the second
C16_Witness ==
    /\ extremes # NotComputed
    /\ Len(scored_routes.rows) = 3
    /\ extremes.top_n = 2
    /\ ~ScoreLeq(ScoreOf(scored_routes.rows[2]), ScoreOf(scored_routes.rows[1]))
    /\ ~ScoreLeq(ScoreOf(scored_routes.rows[3]), ScoreOf(scored_routes.rows[2]))
    /\ extremes.best.rows = <<scored_routes.rows[1], scored_routes.rows[2]>>
    /\ extremes.worst.rows = <<scored_routes.rows[3], scored_routes.rows[2]>>

---------------------------------------------------------------------------
(* Further claims about the warehouse tab.                                 *)

SomeKnownOrder ==
    \E o \in DOMAIN orders_df : Known(o.Origin) /\ Known(o.Product_Category)

\* C17: when some order has a known origin and category, analyse_inventory
\* returns one enriched row per inventory row, in order, whose Orders_Count is
\* the number of orders of the row's (warehouse, category); at no order the
\* daily demand is 0 and the stock cover infinite.
C17_DemandJoin ==
    (Computed(enriched_inventory) /\ SomeKnownOrder) =>
        /\ Returned(enriched_inventory)
        /\ Len(enriched_inventory.rows) = Len(inventory.rows)
        /\ \A i \in DOMAIN inventory.rows :
               LET cell == inventory.rows[i]
                   row == enriched_inventory.rows[i]
               IN  /\ \A c \in InventoryColumns : row[c] = cell[c]
                   /\ row["Orders_Count"] = <<OrdersFor(cell)>>
                   /\ OrdersFor(cell) = 0 =>
                          /\ Val(row["Estimated_Daily_Demand"]).num = 0
                          /\ Val(row["Estimated_Daily_Demand"]).den > 0
                          /\ row["Stock_Cover_Days"] = <<Infinity>>

\* next to an order without origin in category c1: a c1 cell with 60 orders
\* and a c1 cell with none, of infinite cover
C17_Witness ==
    /\ Returned(enriched_inventory)
    /\ OrderKey(NULL, <<"c1">>) \in DOMAIN orders_df
    /\ \E i, j \in DOMAIN enriched_inventory.rows :
          /\ enriched_inventory.rows[i]["Product_Category"] = <<"c1">>
          /\ enriched_inventory.rows[i]["Orders_Count"] = <<60>>
          /\ enriched_inventory.rows[j]["Product_Category"] = <<"c1">>
          /\ enriched_inventory.rows[j]["Orders_Count"] = <<0>>
          /\ enriched_inventory.rows[j]["Stock_Cover_Days"] = <<Infinity>>

\* the rows of the reorder plan that bear the cell's warehouse and category
PlanRowsOf(plan, row) ==
    {k \in DOMAIN plan.rows :
        SameCell(row, plan.rows[k]["Warehouse"], plan.rows[k]["Product_Category"])}

\* C18: a returned reorder plan has exactly one row for every Understock
\* cell and no other row, and the row's quantity is
\* max(max(reorder level, orders count + 5) - stock, 0), whether or not a
\* transfer plan exists and whatever it proposes for the cell.
C18_ReorderFormula ==
    Returned(reorder_plan) =>
        /\ Len(reorder_plan.rows)
               = Cardinality({i \in DOMAIN enriched_inventory.rows :
                                 Val(enriched_inventory.rows[i]["Understock_Flag"])})
        /\ \A i \in DOMAIN enriched_inventory.rows :
               LET row == enriched_inventory.rows[i]
               IN  Val(row["Understock_Flag"]) =>
                       /\ Cardinality(PlanRowsOf(reorder_plan, row)) = 1
                       /\ \A k \in PlanRowsOf(reorder_plan, row) :
                              reorder_plan.rows[k]["Suggested_Reorder"]
                                  = <<Larger(Larger(Val(row["Reorder_Level"]),
                                                    Val(row["Orders_Count"]) + 5)
                                             - Val(row["Stock_Level"]), 0)>>

\* a cell with stock 5 and 60 orders is given 55 units by the transfer plan
\* and is still suggested max(20, 65) - 5 = 60 units by the reorder plan
C18_Witness ==
    /\ Returned(reorder_plan) /\ Returned(transfer_plan)
    /\ \E i \in DOMAIN enriched_inventory.rows :
          /\ enriched_inventory.rows[i]["Stock_Level"] = <<5>>
          /\ enriched_inventory.rows[i]["Orders_Count"] = <<60>>
          /\ QuantityIn(transfer_plan, enriched_inventory.rows[i]) = 55
          /\ SuggestedFor(reorder_plan, enriched_inventory.rows[i]) = 60

Zero == <<Ratio(0, 1)>>

\* C19: _normalize_series gives 0 in every row of a series whose known
\* values are all equal or that has no known value (its minimum and maximum
\* are NaN then), and never a quotient by zero; in a returned scored table a
\* signal whose values (nulls as 0) are all equal is normalized to 0 in every
\* row, and every Route_Score is a number.
C19_DegenerateNormalization ==
    /\ normalized # NotComputed =>
           /\ Cardinality(KnownValues(normalized.series)) <= 1 =>
                  \A i \in DOMAIN normalized.result : normalized.result[i] = Zero
           /\ \A i \in DOMAIN normalized.result :
                  Known(normalized.result[i]) => Val(normalized.result[i]).den # 0
    /\ (Scored /\ Returned(scored_routes)) =>
           \A i \in DOMAIN scored_routes.rows :
               /\ \A c \in SignalColumns :
                      Cardinality(FilledValues(scored_routes, c)) = 1 =>
                          scored_routes.rows[i][NormColumn(c)] = Zero
               /\ Known(ScoreOf(scored_routes.rows[i]))
               /\ Val(ScoreOf(scored_routes.rows[i])).den # 0

\* a scored table of two rows whose delay is unknown in both rows and whose
\* cost and emission are constant: every normalized value is 0 and both rows
\* are scored 0
C19_Witness ==
    /\ Scored /\ Returned(scored_routes)
    /\ Len(scored_routes.rows) = 2
    /\ \A i \in DOMAIN scored_routes.rows :
           /\ scored_routes.rows[i]["Delivery_Delay_Days"] = NULL
           /\ \A c \in SignalColumns : scored_routes.rows[i][NormColumn(c)] = Zero
           /\ Val(ScoreOf(scored_routes.rows[i])).num = 0

\* the cell's surplus and deficit as the claims state them
SurplusOf(row) == Larger(Val(row["Stock_Level"]) - Need(row), 0)

DeficitOf(row) == Larger(Need(row) - Val(row["Stock_Level"]), 0)

\* the cell is in the category, carries the flag and has a known stock level
InCategory(row, flag, product) ==
    row["Product_Category"] = product /\ Val(row[flag]) /\ Known(row["Stock_Level"])

\* the sum of the surpluses of the category's Overstock cells
TotalSurplus(product) ==
    SumSeq([i \in DOMAIN enriched_inventory.rows |->
               IF InCategory(enriched_inventory.rows[i], "Overstock_Flag", product)
               THEN SurplusOf(enriched_inventory.rows[i]) ELSE 0])

\* the sum of the deficits of the category's Understock cells
TotalDeficit(product) ==
    SumSeq([i \in DOMAIN enriched_inventory.rows |->
               IF InCategory(enriched_inventory.rows[i], "Understock_Flag", product)
               THEN DeficitOf(enriched_inventory.rows[i]) ELSE 0])

\* the sum of the quantities of the plan's records of the category
TotalTransferred(plan, product) ==
    SumSeq([k \in DOMAIN plan.rows |->
               IF plan.rows[k]["Product_Category"] = product
               THEN Val(plan.rows[k]["Quantity"]) ELSE 0])

CategoryCells == {<<Categories[k]>> : k \in DOMAIN Categories}

\* C20: in a returned transfer plan every record has a quantity that is a
\* number > 0, an Overstock source and an Understock destination of its
\* category; and, for every product category, every Understock cell has
\* received its whole deficit or every Overstock cell has given its whole
\* surplus, the quantity transferred in the category being
\* min(sum of surpluses, sum of deficits).
C20_GreedyExhaustion ==
    Returned(transfer_plan) =>
        /\ \A k \in DOMAIN transfer_plan.rows :
               LET record == transfer_plan.rows[k]
               IN  /\ Known(record["Quantity"])
                   /\ Val(record["Quantity"]) > 0
                   /\ \E i, j \in DOMAIN enriched_inventory.rows :
                          /\ enriched_inventory.rows[i]["Warehouse"] = record["Source"]
                          /\ InCategory(enriched_inventory.rows[i], "Overstock_Flag",
                                        record["Product_Category"])
                          /\ enriched_inventory.rows[j]["Warehouse"] = record["Destination"]
                          /\ InCategory(enriched_inventory.rows[j], "Understock_Flag",
                                        record["Product_Category"])
        /\ \A product \in CategoryCells :
               /\ \/ \A i \in DOMAIN enriched_inventory.rows :
                         InCategory(enriched_inventory.rows[i], "Understock_Flag", product) =>
                             QuantityIn(transfer_plan, enriched_inventory.rows[i])
                                 = DeficitOf(enriched_inventory.rows[i])
                  \/ \A i \in DOMAIN enriched_inventory.rows :
                         InCategory(enriched_inventory.rows[i], "Overstock_Flag", product) =>
                             QuantityOut(transfer_plan, enriched_inventory.rows[i])
                                 = SurplusOf(enriched_inventory.rows[i])
               /\ TotalTransferred(transfer_plan, product)
                      = IF TotalSurplus(product) < TotalDeficit(product)
                        THEN TotalSurplus(product) ELSE TotalDeficit(product)

\* each (Warehouse, Product_Category) pair is in at most one inventory row
UniqueCells ==
    \A i, j \in DOMAIN inventory.rows :
        SameCell(inventory.rows[i], inventory.rows[j]["Warehouse"],
                 inventory.rows[j]["Product_Category"]) => i = j

BothFlags(row) == Val(row["Overstock_Flag"]) /\ Val(row["Understock_Flag"])

\* the quantity is a number > 0
Positive(x) == Known(x) /\ Val(x) > 0

\* C21: when each (Warehouse, Product_Category) pair is in at most one
\* inventory row, no cell flagged both Overstock and Understock has a
\* Surplus > 0 and a Deficit > 0 at once, and no record of a returned
\* transfer plan has the same warehouse as Source and as Destination.
C21_NoSelfTransfer ==
    UniqueCells =>
        /\ Returned(enriched_inventory) =>
               \A i \in DOMAIN enriched_inventory.rows :
                   BothFlags(enriched_inventory.rows[i]) =>
                       ~(/\ Positive(Surplus(enriched_inventory.rows[i]))
                         /\ Positive(Deficit(enriched_inventory.rows[i])))
        /\ Returned(transfer_plan) =>
               \A k \in DOMAIN transfer_plan.rows :
                   transfer_plan.rows[k]["Source"] # transfer_plan.rows[k]["Destination"]

\* a cell that carries both flags, and so sits among the surplus rows and
\* among the deficit rows of its category, is supplied by another cell
C21_Witness ==
    /\ UniqueCells
    /\ Returned(transfer_plan)
    /\ \E i \in DOMAIN enriched_inventory.rows :
          /\ BothFlags(enriched_inventory.rows[i])
          /\ Surplus(enriched_inventory.rows[i]) = <<0>>
          /\ Positive(Deficit(enriched_inventory.rows[i]))
          /\ QuantityIn(transfer_plan, enriched_inventory.rows[i]) > 0
          /\ QuantityOut(transfer_plan, enriched_inventory.rows[i]) = 0

=============================================================================
